---------------------------- MODULE Spec2Model ----------------------------
(***************************************************************************)
(* A model of the naming-convention rule (src/rules/namingConventionRule.ts):*)
(* the category model (Types, TypeSelector, Modifiers, Specifity), rule     *)
(* normalisation and matching (NormalizedConfig), the format validator      *)
(* (NameChecker and the case predicates), the declaration classifier        *)
(* (_getModifiers and the visit* handlers) and the walker with its cache    *)
(* and depth counter (IdentifierNameWalker).                                *)
(*                                                                         *)
(* Strings are sequences of one-character strings: <<"f","o","o">> is 'foo'.*)
(* JavaScript's undefined is the value Undefined for a scalar and the       *)
(* option NoOption for a 'string | string[] | undefined' field.             *)
(***************************************************************************)
EXTENDS Integers, Sequences, FiniteSets, TLC

VARIABLES
    pc,             \* where the session is: which step comes next
    ruleArguments,  \* Rule.ruleArguments: the raw rules, in declaration order
    options,        \* IdentifierNameWalker.options: the sorted NormalizedConfig list
    depth,          \* IdentifierNameWalker._depth
    cache,          \* IdentifierNameWalker._cache: key <<type, modifiers>> -> checker or Null
    failures,       \* the failures added to the walker (addFailureAtNode), in order
    stack,          \* the nodes the walk's recursion is inside of, outermost first
    visited,        \* the number of nodes visitNode has been called on
    checked,        \* the _checkName calls made so far in the walk, in order
    call            \* the function under study and its arguments and result

vars == <<pc, ruleArguments, options, depth, cache, failures, stack, visited, checked, call>>

Undefined == "undefined"

\* null where a NameChecker is expected
Null == [null |-> TRUE]

---------------------------------------------------------------------------
(* 32-bit integer operators of JavaScript, on two's-complement integers.   *)
(* Every value of the program stays far inside the 32-bit range, so no     *)
(* wrap-around is modelled.                                                *)

RECURSIVE BitAnd(_, _)
BitAnd(a, b) ==
    IF a = 0 \/ b = 0 THEN 0
    ELSE IF a = -1 THEN b
    ELSE IF b = -1 THEN a
    ELSE (a % 2) * (b % 2) + 2 * BitAnd(a \div 2, b \div 2)

BitOr(a, b) == a + b - BitAnd(a, b)

BitNot(a) == -a - 1

Shl(a, n) == a * 2^n

---------------------------------------------------------------------------
(* The category model.                                                     *)

Types ==
    [ default |-> -1,
      variable |-> 1,
      function |-> Shl(1, 1),
      parameter |-> Shl(1, 2),
      member |-> Shl(1, 3),
      property |-> Shl(1, 4),
      method |-> Shl(1, 5),
      type |-> Shl(1, 6),
      class |-> Shl(1, 7),
      interface |-> Shl(1, 8),
      typeAlias |-> Shl(1, 9),
      genericTypeParameter |-> Shl(1, 10),
      enum |-> Shl(1, 11),
      enumMember |-> Shl(1, 12) ]

TypeNames == DOMAIN Types

TypeSelector ==
    [ variable |-> Types.variable,
      function |-> BitOr(Types.variable, Types.function),
      parameter |-> BitOr(Types.variable, Types.parameter),
      property |-> BitOr(Types.member, Types.property),
      parameterProperty |->
          BitOr(BitOr(Types.variable, Types.parameter), BitOr(Types.member, Types.property)),
      method |-> BitOr(Types.member, Types.method),
      class |-> BitOr(Types.type, Types.class),
      interface |-> BitOr(Types.type, Types.interface),
      typeAlias |-> BitOr(Types.type, Types.typeAlias),
      genericTypeParameter |-> BitOr(Types.type, Types.genericTypeParameter),
      enum |-> BitOr(Types.type, Types.enum),
      enumMember |-> BitOr(BitOr(Types.member, Types.property), Types.enumMember) ]

SelectorNames == DOMAIN TypeSelector

\* TypeSelector[value]: the reverse mapping of the numeric enum
SelectorName(value) == CHOOSE n \in SelectorNames : TypeSelector[n] = value

Modifiers ==
    [ const |-> 1,
      readonly |-> 1,
      static |-> Shl(1, 1),
      public |-> Shl(1, 2),
      protected |-> Shl(1, 3),
      private |-> Shl(1, 4),
      global |-> Shl(1, 5),
      local |-> Shl(1, 6),
      abstract |-> Shl(1, 7),
      export |-> Shl(1, 8),
      import |-> Shl(1, 9),
      rename |-> Shl(1, 10) ]

ModifierNames == DOMAIN Modifiers

Specifity ==
    [ const |-> 1,
      readonly |-> 1,
      static |-> Shl(1, 1),
      global |-> Shl(1, 1),
      local |-> Shl(1, 1),
      public |-> Shl(1, 2),
      protected |-> Shl(1, 2),
      private |-> Shl(1, 2),
      abstract |-> Shl(1, 3),
      export |-> Shl(1, 4),
      import |-> Shl(1, 5),
      rename |-> Shl(1, 6),
      filter |-> Shl(1, 7),
      default |-> Shl(1, 8),
      variable |-> Shl(2, 8),
      function |-> Shl(3, 8),
      parameter |-> Shl(4, 8),
      member |-> Shl(5, 8),
      property |-> Shl(6, 8),
      method |-> Shl(6, 8),
      enumMember |-> Shl(7, 8),
      type |-> Shl(8, 8),
      class |-> Shl(9, 8),
      interface |-> Shl(9, 8),
      typeAlias |-> Shl(9, 8),
      genericTypeParameter |-> Shl(9, 8),
      enum |-> Shl(9, 8) ]

---------------------------------------------------------------------------
(* Options of type T | T[] | undefined.                                    *)

NoOption == [kind |-> "undefined", items |-> <<>>]
One(v) == [kind |-> "single", items |-> <<v>>]
Many(vs) == [kind |-> "array", items |-> vs]

IsArray(o) == o.kind = "array"

\* JavaScript truthiness of a string option: undefined and '' are falsy, an array
\* is truthy
Truthy(o) ==
    \/ o.kind = "array"
    \/ o.kind = "single" /\ Len(o.items[1]) > 0

\* Truthiness of an option whose strings are names of an enumeration, never ''
TruthyName(o) == o.kind # "undefined"

parseOptionArray(option) ==
    IF ~IsArray(option) \/ Len(option.items) > 1 THEN option
    ELSE IF Len(option.items) = 0 THEN NoOption
    ELSE One(option.items[1])

---------------------------------------------------------------------------
(* Regular expressions. The model knows the sources ^x for a literal x     *)
(* (a string of letters and underscores) and one source that is no regular *)
(* expression, for which the RegExp constructor throws a SyntaxError.      *)

Anchored(literal) == <<"^">> \o literal
InvalidSource == <<"(">>

RegExpThrows(source) == source = InvalidSource

StartsWith(s, p) == Len(p) <= Len(s) /\ SubSeq(s, 1, Len(p)) = p
EndsWith(s, p) == Len(p) <= Len(s) /\ SubSeq(s, Len(s) - Len(p) + 1, Len(s)) = p

\* RegExp.prototype.test for the source ^literal
RegExpTest(source, name) == StartsWith(name, Tail(source))


---------------------------------------------------------------------------
(* Raw rules (RuleConfig) and their normal form (NormalizedConfig).        *)
(* A raw rule is the record of its keys; a key the configuration leaves    *)
(* out has the value NoOption (type string or string[]) or Undefined.      *)

FormatKeys == {"format", "leadingUnderscore", "trailingUnderscore", "prefix", "suffix", "regex"}

EmptyFormat ==
    [ format |-> NoOption,
      leadingUnderscore |-> Undefined,
      trailingUnderscore |-> Undefined,
      prefix |-> NoOption,
      suffix |-> NoOption,
      regex |-> NoOption ]

RawRule(type, modifiers, final, filter, fmt) ==
    [ type |-> type,
      modifiers |-> modifiers,
      final |-> final,
      filter |-> filter,
      format |-> fmt.format,
      leadingUnderscore |-> fmt.leadingUnderscore,
      trailingUnderscore |-> fmt.trailingUnderscore,
      prefix |-> fmt.prefix,
      suffix |-> fmt.suffix,
      regex |-> fmt.regex ]

\* Types[raw.type]: undefined for a name the enum does not have. Every use of
\* _type (<< and &) converts undefined to 0.
LookupType(name) == IF name \in DOMAIN Types THEN Types[name] ELSE 0

\* Modifiers[modifier]: undefined, used as 0 by |= and by &
LookupModifier(name) == IF name \in DOMAIN Modifiers THEN Modifiers[name] ELSE 0

\* Specifity[key] under |=, which converts undefined to 0
LookupSpecifity(name) == IF name \in DOMAIN Specifity THEN Specifity[name] ELSE 0

RECURSIVE OrModifiers(_, _)
OrModifiers(names, acc) ==
    IF names = <<>> THEN acc
    ELSE OrModifiers(Tail(names), BitOr(acc, LookupModifier(Head(names))))

\* OrSpecifity that leaves the modifiers out of the score
OrSpecifityKindOnly(names, acc) == acc

RECURSIVE OrSpecifity(_, _)
OrSpecifity(names, acc) ==
    IF names = <<>> THEN acc
    ELSE OrSpecifity(Tail(names), BitOr(acc, LookupSpecifity(Head(names))))

\* The constructor throws only where it compiles the filter.
NormalizedConfigThrows(raw) ==
    raw.filter # NoOption /\ RegExpThrows(raw.filter.items[1])

\* new NormalizedConfig(raw). specifityIsNumber is FALSE when _specifity is left
\* undefined: Specifity[raw.type] is undefined and no |= follows.
NormalizedConfig(raw) ==
    LET typeSpecifity == LookupSpecifity(raw.type)
        withModifiers == OrSpecifity(raw.modifiers.items, typeSpecifity)
        withFilter ==
            IF raw.filter # NoOption THEN BitOr(withModifiers, Specifity.filter)
            ELSE withModifiers
    IN  [ type |-> LookupType(raw.type),
          final |-> raw.final,
          specifity |-> withFilter,
          specifityIsNumber |->
              \/ raw.type \in DOMAIN Specifity
              \/ raw.modifiers # NoOption
              \/ raw.filter # NoOption,
          modifiers |->
              IF raw.modifiers = NoOption THEN 0
              ELSE IF IsArray(raw.modifiers) THEN OrModifiers(raw.modifiers.items, 0)
              ELSE LookupModifier(raw.modifiers.items[1]),
          filter |-> raw.filter,
          format |-> raw ]

\* FinalExcludes without the shift: the ceiling is the rule's own bit
FinalExcludesNoShift(rule, type) == rule.final /\ type > rule.type

\* The first test of matches: a final rule and a selector above its ceiling
FinalExcludes(rule, type) == rule.final /\ type > Shl(rule.type, 1)

\* matches with the kinds compared for equality and not for a common bit
matchesExactKind(rule, type, modifiers, name) ==
    IF FinalExcludes(rule, type) THEN <<FALSE, FALSE>>
    ELSE IF rule.type # type \/ BitAnd(rule.modifiers, BitNot(modifiers)) # 0
    THEN <<FALSE, FALSE>>
    ELSE IF rule.filter = NoOption THEN <<TRUE, FALSE>>
    ELSE <<RegExpTest(rule.filter.items[1], name), TRUE>>

\* NormalizedConfig.matches: <<matches, filterUsed>>
matches(rule, type, modifiers, name) ==
    IF FinalExcludes(rule, type) THEN <<FALSE, FALSE>>
    ELSE IF BitAnd(rule.type, type) = 0 \/ BitAnd(rule.modifiers, BitNot(modifiers)) # 0
    THEN <<FALSE, FALSE>>
    ELSE IF rule.filter = NoOption THEN <<TRUE, FALSE>>
    ELSE <<RegExpTest(rule.filter.items[1], name), TRUE>>

getFormat(rule) == rule.format

\* NormalizedConfig.sort; a difference that is NaN counts as 0 in Array.prototype.sort
sort(first, second) ==
    IF first.specifityIsNumber /\ second.specifityIsNumber
    THEN first.specifity - second.specifity
    ELSE 0

\* Array.prototype.sort with the comparator above: a stable sort
RECURSIVE InsertSorted(_, _)
InsertSorted(sorted, x) ==
    IF sorted = <<>> THEN <<x>>
    ELSE LET last == sorted[Len(sorted)]
         IN  IF sort(last, x) > 0
             THEN Append(InsertSorted(SubSeq(sorted, 1, Len(sorted) - 1), x), last)
             ELSE Append(sorted, x)

RECURSIVE ArraySort(_)
ArraySort(arr) ==
    IF arr = <<>> THEN <<>>
    ELSE InsertSorted(ArraySort(SubSeq(arr, 1, Len(arr) - 1)), arr[Len(arr)])

RECURSIVE MapNormalizedConfig(_)
MapNormalizedConfig(raws) ==
    IF raws = <<>> THEN <<>>
    ELSE <<NormalizedConfig(Head(raws))>> \o MapNormalizedConfig(Tail(raws))

\* Rule.apply builds the walker's options; it throws if a constructor throws
RuleApplyThrows(raws) == \E i \in 1..Len(raws) : NormalizedConfigThrows(raws[i])

\* Rule.apply without the sort
RuleApplyUnsorted(raws) == MapNormalizedConfig(raws)

\* Rule.apply hands the walker the normalised rules, sorted
RuleApply(raws) == ArraySort(MapNormalizedConfig(raws))


---------------------------------------------------------------------------
(* Variables a specification does not use keep these values.               *)

NoCall == [op |-> "none"]

IdleWalker ==
    /\ ruleArguments = <<>>
    /\ options = <<>>
    /\ depth = 0
    /\ cache = <<>>
    /\ failures = <<>>
    /\ stack = <<>>
    /\ visited = 0
    /\ checked = <<>>

walkerVars == <<ruleArguments, options, depth, cache, failures, stack, visited, checked>>

---------------------------------------------------------------------------
(* SpecMatch: NormalizedConfig.matches on one rule and one declaration.    *)

\* The modifiers a rule of the study requires
MatchRuleModifiers ==
    { NoOption, One("const"), One("readonly"), One("public"), One("local"),
      Many(<<"static", "public">>), Many(<<"export", "const">>) }

\* Modifier bitmasks of declarations
MatchDeclModifiers ==
    { 0,
      Modifiers.public,
      BitOr(Modifiers.public, Modifiers.static),
      BitOr(BitOr(Modifiers.private, Modifiers.static), Modifiers.const),
      Modifiers.global,
      BitOr(Modifiers.local, Modifiers.const),
      BitOr(BitOr(Modifiers.global, Modifiers.export), Modifiers.const) }

MatchFilters == { NoOption, One(Anchored(<<"I">>)) }

MatchNames == { <<"I", "x">>, <<"x">> }

MatchInit ==
    /\ pc = "matches"
    /\ IdleWalker
    /\ \E type \in TypeNames, modifiers \in MatchRuleModifiers, final \in BOOLEAN,
          filter \in MatchFilters, selector \in SelectorNames,
          declModifiers \in MatchDeclModifiers, name \in MatchNames :
          call = [ op |-> "matches",
                   raw |-> RawRule(type, modifiers, final, filter, EmptyFormat),
                   selector |-> selector,
                   modifiers |-> declModifiers,
                   name |-> name,
                   result |-> <<>> ]

CallMatches ==
    /\ pc = "matches"
    /\ call' = [call EXCEPT !.result =
                   matches(NormalizedConfig(call.raw), TypeSelector[call.selector],
                           call.modifiers, call.name)]
    /\ pc' = "done"
    /\ UNCHANGED walkerVars

MatchNext == CallMatches

SpecMatch == MatchInit /\ [][MatchNext]_vars


---------------------------------------------------------------------------
(* The reference reading of the bit masks, used to state the claims: the   *)
(* kinds a selector is made of, the position of each kind's bit, the       *)
(* modifiers a bitmask holds.                                              *)

SelectorKinds ==
    [ variable |-> {"variable"},
      function |-> {"variable", "function"},
      parameter |-> {"variable", "parameter"},
      property |-> {"member", "property"},
      parameterProperty |-> {"variable", "parameter", "member", "property"},
      method |-> {"member", "method"},
      class |-> {"type", "class"},
      interface |-> {"type", "interface"},
      typeAlias |-> {"type", "typeAlias"},
      genericTypeParameter |-> {"type", "genericTypeParameter"},
      enum |-> {"type", "enum"},
      enumMember |-> {"member", "property", "enumMember"} ]

KindBit ==
    [ variable |-> 0, function |-> 1, parameter |-> 2, member |-> 3, property |-> 4,
      method |-> 5, type |-> 6, class |-> 7, interface |-> 8, typeAlias |-> 9,
      genericTypeParameter |-> 10, enum |-> 11, enumMember |-> 12 ]

ModifierBit ==
    [ const |-> 0, readonly |-> 0, static |-> 1, public |-> 2, protected |-> 3,
      private |-> 4, global |-> 5, local |-> 6, abstract |-> 7, export |-> 8,
      import |-> 9, rename |-> 10 ]

BitSet(x, b) == (x \div 2^b) % 2 = 1

BitsOf(x) == {b \in 0..30 : BitSet(x, b)}

HasModifier(mask, name) == BitSet(mask, ModifierBit[name])

\* The kinds a rule of kind k stands for
RuleKinds(k) == IF k = "default" THEN DOMAIN KindBit ELSE {k}

\* The sub-kinds of the broader kinds, as the specification lists them
SubKinds ==
    [ variable |-> {"function", "parameter", "parameterProperty"},
      member |-> {"property", "method", "enumMember"},
      type |-> {"class", "interface", "typeAlias", "genericTypeParameter", "enum"},
      default |-> SelectorNames ]

RequiredPresent(raw, mask) ==
    \A i \in 1..Len(raw.modifiers.items) : HasModifier(mask, raw.modifiers.items[i])

PlainRule(raw) == ~raw.final /\ raw.filter = NoOption

MatchDone == pc = "done" /\ call.op = "matches"

\* A rule without final and filter matches iff its kind and the selector share a
\* kind and every required modifier is present.
MatchesIffKindAndModifiers ==
    MatchDone /\ PlainRule(call.raw) =>
        (call.result[1] <=>
            /\ RuleKinds(call.raw.type) \cap SelectorKinds[call.selector] # {}
            /\ RequiredPresent(call.raw, call.modifiers))

\* A rule for a broader kind applies to every declaration of its sub-kinds.
BroaderKindApplies ==
    MatchDone /\ PlainRule(call.raw) /\ call.raw.type \in DOMAIN SubKinds
        /\ call.selector \in SubKinds[call.raw.type]
        /\ RequiredPresent(call.raw, call.modifiers)
    => call.result[1]

\* The selectors that are siblings of sub-kind k, or only its broader kind
SiblingsOrBroader(k) ==
    UNION { (SubKinds[b] \ {k}) \cup ({b} \cap SelectorNames) :
            b \in {c \in {"variable", "member", "type"} : k \in SubKinds[c]} }

(* C3, as the specification states it: a plain rule matches iff kind and    *)
(* selector share a bit and the required modifiers are present; a rule for *)
(* a broader kind applies to all declarations of its sub-kinds; a rule for *)
(* a sub-kind never matches a declaration of a sibling kind or of only the *)
(* broader kind.                                                           *)
C3_AsStated ==
    /\ MatchesIffKindAndModifiers
    /\ BroaderKindApplies
    /\ (MatchDone /\ PlainRule(call.raw) /\ call.selector \in SiblingsOrBroader(call.raw.type)
            => ~call.result[1])

(* C3, amended: as above, but a rule for a sub-kind never matches a         *)
(* declaration of a sibling kind, or of only the broader kind, whose        *)
(* selector does not itself contain the rule's kind. (An enumMember         *)
(* declaration is also a property, a parameterProperty also a parameter.)  *)
C3_PlainMatching ==
    /\ MatchesIffKindAndModifiers
    /\ BroaderKindApplies
    /\ (MatchDone /\ PlainRule(call.raw) /\ call.selector \in SiblingsOrBroader(call.raw.type)
            /\ call.raw.type \notin SelectorKinds[call.selector]
            => ~call.result[1])

\* A rule for member with two required modifiers has matched an enum member that
\* carries them.
C3_Witness ==
    /\ MatchDone /\ PlainRule(call.raw)
    /\ call.raw.type = "member" /\ call.selector = "enumMember"
    /\ call.raw.modifiers = Many(<<"static", "public">>)
    /\ call.result[1]

\* The same rule without final
Twin(raw) == NormalizedConfig([raw EXCEPT !.final = FALSE])

TwinResult ==
    matches(Twin(call.raw), TypeSelector[call.selector], call.modifiers, call.name)

\* S has a bit at a position strictly above every bit of x
HasBitAbove(selector, x) ==
    \E b \in BitsOf(TypeSelector[selector]) : \A c \in BitsOf(x) : b > c

(* C4, as the specification states it: a final rule is excluded by the      *)
(* final test exactly when S has a bit strictly above the bit R.kind << 1; *)
(* when S has no such bit, final does not change the outcome of matching.  *)
C4_AsStated ==
    MatchDone /\ call.raw.final =>
        LET rule == NormalizedConfig(call.raw)
            above == HasBitAbove(call.selector, Shl(rule.type, 1))
        IN  /\ FinalExcludes(rule, TypeSelector[call.selector]) <=> above
            /\ ~above => call.result = TwinResult

\* The condition under which the code's final test excludes
AboveOwnBit(type, selector) ==
    IF type = "default" THEN TRUE
    ELSE \E b \in BitsOf(TypeSelector[selector]) : b > KindBit[type]

(* C4, amended: a final rule is excluded by the final test exactly when S,  *)
(* as a number, exceeds R.kind << 1: for the kind selectors of the program *)
(* that is when S has a bit strictly above R.kind's own bit, and always    *)
(* for a rule of kind default (-1 << 1 is -2). It then matches nothing;    *)
(* otherwise final does not change the outcome of matching.                *)
C4_FinalCeiling ==
    MatchDone /\ call.raw.final =>
        LET rule == NormalizedConfig(call.raw)
            above == AboveOwnBit(call.raw.type, call.selector)
        IN  /\ FinalExcludes(rule, TypeSelector[call.selector]) <=> above
            /\ above => call.result = <<FALSE, FALSE>>
            /\ ~above => call.result = TwinResult

\* A final rule for variable has been excluded for a function declaration, which
\* the same rule without final matches.
C4_Witness ==
    /\ MatchDone /\ call.raw.final
    /\ call.raw.type = "variable" /\ call.selector = "function"
    /\ call.result = <<FALSE, FALSE>>
    /\ TwinResult[1]


---------------------------------------------------------------------------
(* The case predicates.                                                    *)

PASCAL_OPTION == "PascalCase"
CAMEL_OPTION == "camelCase"
SNAKE_OPTION == "snake_case"
UPPER_OPTION == "UPPER_CASE"

Formats == {PASCAL_OPTION, CAMEL_OPTION, SNAKE_OPTION, UPPER_OPTION}

\* The letters of the model's names: <<lower case, upper case>>
LetterPairs ==
    { <<"a", "A">>, <<"b", "B">>, <<"c", "C">>, <<"f", "F">>, <<"i", "I">>,
      <<"o", "O">>, <<"r", "R">>, <<"t", "T">>, <<"x", "X">> }

LowerLetters == {p[1] : p \in LetterPairs}
UpperLetters == {p[2] : p \in LetterPairs}

\* String.prototype.toUpperCase and toLowerCase on one character
CharToUpperCase(c) ==
    IF c \in LowerLetters THEN (CHOOSE p \in LetterPairs : p[1] = c)[2] ELSE c

CharToLowerCase(c) ==
    IF c \in UpperLetters THEN (CHOOSE p \in LetterPairs : p[2] = c)[1] ELSE c

toUpperCase(name) == [i \in 1..Len(name) |-> CharToUpperCase(name[i])]
toLowerCase(name) == [i \in 1..Len(name) |-> CharToLowerCase(name[i])]

\* name[i] with JavaScript's index from 0: undefined past the end
CharAt(name, i) == IF i >= 0 /\ i < Len(name) THEN name[i + 1] ELSE Undefined

isUppercaseChar(char) == char = CharToUpperCase(char) /\ char # CharToLowerCase(char)

\* The loop of hasStrictCamelHumps from index i on
RECURSIVE CamelHumpsFrom(_, _, _)
CamelHumpsFrom(name, i, isUpper) ==
    IF i >= Len(name) THEN TRUE
    ELSE IF CharAt(name, i) = "_" THEN FALSE
    ELSE IF isUpper = isUppercaseChar(CharAt(name, i))
         THEN IF isUpper THEN FALSE ELSE CamelHumpsFrom(name, i + 1, isUpper)
         ELSE CamelHumpsFrom(name, i + 1, ~isUpper)

\* hasStrictCamelHumps that lets runs of upper-case letters pass
hasLooseCamelHumps(name, isUpper) ==
    /\ CharAt(name, 0) # "_"
    /\ \A i \in 1..(Len(name) - 1) : CharAt(name, i) # "_"

hasStrictCamelHumps(name, isUpper) ==
    IF CharAt(name, 0) = "_" THEN FALSE
    ELSE CamelHumpsFrom(name, 1, isUpper)

isPascalCase(name) ==
    Len(name) = 0
    \/ (CharAt(name, 0) = CharToUpperCase(CharAt(name, 0)) /\ hasStrictCamelHumps(name, TRUE))

isCamelCase(name) ==
    Len(name) = 0
    \/ (CharAt(name, 0) = CharToLowerCase(CharAt(name, 0)) /\ hasStrictCamelHumps(name, FALSE))

\* The loop of validateUnderscores from index i on
RECURSIVE UnderscoresFrom(_, _, _)
UnderscoresFrom(name, i, wasUnderscore) ==
    IF i >= Len(name) THEN ~wasUnderscore
    ELSE IF CharAt(name, i) = "_"
         THEN IF wasUnderscore THEN FALSE ELSE UnderscoresFrom(name, i + 1, TRUE)
         ELSE UnderscoresFrom(name, i + 1, FALSE)

validateUnderscores(name) ==
    IF CharAt(name, 0) = "_" THEN FALSE
    ELSE UnderscoresFrom(name, 1, FALSE)

isSnakeCase(name) == name = toLowerCase(name) /\ validateUnderscores(name)

isUpperCase(name) == name = toUpperCase(name) /\ validateUnderscores(name)

matchesFormat(identifier, format) ==
    CASE format = PASCAL_OPTION -> isPascalCase(identifier)
      [] format = CAMEL_OPTION -> isCamelCase(identifier)
      [] format = SNAKE_OPTION -> isSnakeCase(identifier)
      [] format = UPPER_OPTION -> isUpperCase(identifier)

matchesAnyFormat(identifier, formats) ==
    \E i \in 1..Len(formats) : matchesFormat(identifier, formats[i])

---------------------------------------------------------------------------
(* SpecFormat: matchesFormat on every name over a small alphabet.          *)

MaxLen == 4

FormatChars == {"A", "B", "C", "a", "b", "_"}

FormatNames == UNION { [1..n -> FormatChars] : n \in 0..MaxLen }

FormatInit ==
    /\ pc = "matchesFormat"
    /\ IdleWalker
    /\ \E name \in FormatNames, format \in Formats :
          call = [op |-> "matchesFormat", name |-> name, format |-> format, result |-> FALSE]

CallMatchesFormat ==
    /\ pc = "matchesFormat"
    /\ call' = [call EXCEPT !.result = matchesFormat(call.name, call.format)]
    /\ pc' = "done"
    /\ UNCHANGED walkerVars

FormatNext == CallMatchesFormat

SpecFormat == FormatInit /\ [][FormatNext]_vars

\* The reference definitions of the four conventions
NoUnderscore(n) == \A i \in 1..Len(n) : n[i] # "_"
NoAdjacentUpper(n) == \A i \in 1..(Len(n) - 1) : ~(n[i] \in UpperLetters /\ n[i + 1] \in UpperLetters)
InnerSingleUnderscores(n) ==
    /\ Len(n) > 0 => (n[1] # "_" /\ n[Len(n)] # "_")
    /\ \A i \in 1..(Len(n) - 1) : ~(n[i] = "_" /\ n[i + 1] = "_")

RefFormat(n, format) ==
    CASE format = PASCAL_OPTION ->
            n = <<>> \/ (n[1] \in UpperLetters /\ NoUnderscore(n) /\ NoAdjacentUpper(n))
      [] format = CAMEL_OPTION ->
            n = <<>> \/ (n[1] \in LowerLetters /\ NoUnderscore(n) /\ NoAdjacentUpper(n))
      [] format = SNAKE_OPTION ->
            (\A i \in 1..Len(n) : n[i] \notin UpperLetters) /\ InnerSingleUnderscores(n)
      [] format = UPPER_OPTION ->
            (\A i \in 1..Len(n) : n[i] \notin LowerLetters) /\ InnerSingleUnderscores(n)

\* The boundary cases the specification lists: <<name, format, expected>>
BoundaryCases ==
    { << <<>>, PASCAL_OPTION, TRUE >>, << <<>>, CAMEL_OPTION, TRUE >>,
      << <<"A">>, PASCAL_OPTION, TRUE >>, << <<"A">>, CAMEL_OPTION, FALSE >>,
      << <<"a", "B">>, CAMEL_OPTION, TRUE >>,
      << <<"A", "B", "C">>, PASCAL_OPTION, FALSE >>, << <<"A", "B", "C">>, CAMEL_OPTION, FALSE >>,
      << <<"a", "_", "b">>, SNAKE_OPTION, TRUE >>,
      << <<"a", "_", "_", "b">>, SNAKE_OPTION, FALSE >>,
      << <<"_", "a">>, SNAKE_OPTION, FALSE >>,
      << <<"a", "_">>, SNAKE_OPTION, FALSE >> }

FormatDone == pc = "done" /\ call.op = "matchesFormat"

(* C7: on every name over upper-case letters, lower-case letters and '_',   *)
(* matchesFormat agrees with the reference definitions of PascalCase,      *)
(* camelCase, snake_case and UPPER_CASE, and gives the listed results on   *)
(* the boundary cases.                                                     *)
C7_FormatsAgree ==
    FormatDone =>
        /\ call.result = RefFormat(call.name, call.format)
        /\ \A c \in BoundaryCases :
              (c[1] = call.name /\ c[2] = call.format) => call.result = c[3]

\* matchesFormat has rejected 'ABC' as PascalCase
C7_Witness ==
    /\ FormatDone
    /\ call.name = <<"A", "B", "C">> /\ call.format = PASCAL_OPTION
    /\ call.result = FALSE


---------------------------------------------------------------------------
(* NameChecker.                                                            *)

FORMAT_FAIL == " name must be in "
LEADING_FAIL == " name must not have leading underscore"
TRAILING_FAIL == " name must not have trailing underscore"
NO_LEADING_FAIL == " name must have leading underscore"
NO_TRAILING_FAIL == " name must have trailing underscore"
REGEX_FAIL == " name did not match required regex"
PREFIX_FAIL == " name must start with "
SUFFIX_FAIL == " name must end with "
PREFIX_FAIL_ARR == " name must start with one of "
SUFFIX_FAIL_ARR == " name must end with one of "

\* String.prototype.slice(start, end) and slice(start)
SliceIndex(len, i) == IF i < 0 THEN (IF len + i < 0 THEN 0 ELSE len + i)
                      ELSE (IF i > len THEN len ELSE i)

Slice(s, start, end) == SubSeq(s, SliceIndex(Len(s), start) + 1, SliceIndex(Len(s), end))

SliceFrom(s, start) == SubSeq(s, SliceIndex(Len(s), start) + 1, Len(s))

\* The constructor throws where it compiles the regex
NameCheckerThrows(format) ==
    Truthy(format.regex) /\ RegExpThrows(format.regex.items[1])

\* new NameChecker(type, format)
NameChecker(type, format) ==
    [ type |-> type,
      leadingUnderscore |-> format.leadingUnderscore,
      trailingUnderscore |-> format.trailingUnderscore,
      format |-> parseOptionArray(format.format),
      prefix |-> parseOptionArray(format.prefix),
      suffix |-> parseOptionArray(format.suffix),
      regex |-> IF Truthy(format.regex) THEN format.regex ELSE NoOption ]

\* A failure as addFailureAtNode gets it: the field that failed, the message
\* _failMessage builds (the selector's name, then the text) and what the text lists
Failure(checker, field, text, detail) ==
    [ field |-> field,
      message |-> <<SelectorName(checker.type), text>>,
      detail |-> detail ]

formatFormatList(formats) ==
    LET lastIndex == Len(formats) - 1
        middle[i \in 1..Len(formats)] ==
            IF i >= lastIndex THEN <<>>
            ELSE <<", ", formats[i + 1]>> \o middle[i + 1]
    IN  <<formats[1]>> \o middle[1] \o <<" or ", formats[lastIndex + 1]>>

\* A step of check hands on the identifier and the failures added so far.
RegexStep(checker, st) ==
    IF checker.regex # NoOption /\ ~RegExpTest(checker.regex.items[1], st.identifier)
    THEN [st EXCEPT !.failures = Append(@, Failure(checker, "regex", REGEX_FAIL, <<>>))]
    ELSE st

\* LeadingStep that removes every leading underscore
RECURSIVE DropLeadingUnderscores(_)
DropLeadingUnderscores(s) ==
    IF Len(s) > 0 /\ Head(s) = "_" THEN DropLeadingUnderscores(Tail(s)) ELSE s

LeadingStepGreedy(checker, st) ==
    IF checker.leadingUnderscore = Undefined THEN st
    ELSE [st EXCEPT !.identifier = DropLeadingUnderscores(@)]

LeadingStep(checker, st) ==
    IF checker.leadingUnderscore = Undefined THEN st
    ELSE IF CharAt(st.identifier, 0) = "_"
    THEN [ identifier |-> SliceFrom(st.identifier, 1),
           failures |->
               IF checker.leadingUnderscore = "forbid"
               THEN Append(st.failures, Failure(checker, "leadingUnderscore", LEADING_FAIL, <<>>))
               ELSE st.failures ]
    ELSE IF checker.leadingUnderscore = "require"
    THEN [st EXCEPT !.failures =
             Append(@, Failure(checker, "leadingUnderscore", NO_LEADING_FAIL, <<>>))]
    ELSE st

TrailingStep(checker, st) ==
    IF checker.trailingUnderscore = Undefined THEN st
    ELSE IF CharAt(st.identifier, Len(st.identifier) - 1) = "_"
    THEN [ identifier |-> Slice(st.identifier, 0, -1),
           failures |->
               IF checker.trailingUnderscore = "forbid"
               THEN Append(st.failures, Failure(checker, "trailingUnderscore", TRAILING_FAIL, <<>>))
               ELSE st.failures ]
    ELSE IF checker.trailingUnderscore = "require"
    THEN [st EXCEPT !.failures =
             Append(@, Failure(checker, "trailingUnderscore", NO_TRAILING_FAIL, <<>>))]
    ELSE st

\* _checkPrefixes: the first prefix the identifier starts with is cut off
checkPrefixes(checker, st, prefixes) ==
    LET hits == {i \in 1..Len(prefixes) : StartsWith(st.identifier, prefixes[i])}
    IN  IF hits # {}
        THEN LET first == CHOOSE i \in hits : \A j \in hits : i <= j
             IN  [st EXCEPT !.identifier = SliceFrom(@, Len(prefixes[first]))]
        ELSE [st EXCEPT !.failures =
                 Append(@, Failure(checker, "prefix", PREFIX_FAIL_ARR, prefixes))]

\* _checkSuffixes: for the first suffix the identifier ends with, the result is
\* identifier.slice(-suffix.length)
checkSuffixes(checker, st, suffixes) ==
    LET hits == {i \in 1..Len(suffixes) : EndsWith(st.identifier, suffixes[i])}
    IN  IF hits # {}
        THEN LET first == CHOOSE i \in hits : \A j \in hits : i <= j
             IN  [st EXCEPT !.identifier = SliceFrom(@, -Len(suffixes[first]))]
        ELSE [st EXCEPT !.failures =
                 Append(@, Failure(checker, "suffix", SUFFIX_FAIL_ARR, suffixes))]

PrefixStep(checker, st) ==
    IF ~Truthy(checker.prefix) THEN st
    ELSE IF IsArray(checker.prefix) THEN checkPrefixes(checker, st, checker.prefix.items)
    ELSE IF StartsWith(st.identifier, checker.prefix.items[1])
    THEN [st EXCEPT !.identifier = SliceFrom(@, Len(checker.prefix.items[1]))]
    ELSE [st EXCEPT !.failures =
             Append(@, Failure(checker, "prefix", PREFIX_FAIL, checker.prefix.items))]

SuffixStep(checker, st) ==
    IF ~Truthy(checker.suffix) THEN st
    ELSE IF IsArray(checker.suffix) THEN checkSuffixes(checker, st, checker.suffix.items)
    ELSE IF EndsWith(st.identifier, checker.suffix.items[1])
    THEN [st EXCEPT !.identifier = Slice(@, 0, -Len(checker.suffix.items[1]))]
    ELSE [st EXCEPT !.failures =
             Append(@, Failure(checker, "suffix", SUFFIX_FAIL, checker.suffix.items))]

FormatStep(checker, st) ==
    IF ~TruthyName(checker.format) THEN st
    ELSE IF IsArray(checker.format)
    THEN IF ~matchesAnyFormat(st.identifier, checker.format.items)
         THEN [st EXCEPT !.failures =
                  Append(@, Failure(checker, "format", FORMAT_FAIL,
                                    formatFormatList(checker.format.items)))]
         ELSE st
    ELSE IF ~matchesFormat(st.identifier, checker.format.items[1])
    THEN [st EXCEPT !.failures =
             Append(@, Failure(checker, "format", FORMAT_FAIL, checker.format.items))]
    ELSE st

\* The identifier and the failures when check reaches the prefix test
AfterUnderscores(checker, name) ==
    TrailingStep(checker,
        LeadingStep(checker,
            RegexStep(checker, [identifier |-> name, failures |-> <<>>])))

\* The identifier and the failures when check reaches the suffix test
BeforeSuffix(checker, name) == PrefixStep(checker, AfterUnderscores(checker, name))

\* NameChecker.check: the failures it adds, in order, and the identifier its
\* case check has looked at
check(checker, name) ==
    FormatStep(checker, SuffixStep(checker, BeforeSuffix(checker, name)))


---------------------------------------------------------------------------
(* SpecCheck: one NameChecker checks the names of successive declarations  *)
(* (_checkName's matchingChecker.check(name, this)); each failure goes to  *)
(* the walker's list with the number of the declaration it is about.       *)

MaxIdentifiers == 2

CheckRegexes == { NoOption, One(Anchored(<<"I">>)) }
CheckUnderscores == { Undefined, "allow", "forbid", "require" }
CheckPrefixes == { NoOption, One(<<"I">>), Many(<< <<"T">>, <<"I">> >>) }
CheckSuffixes == { NoOption, One(<<"X">>), Many(<< <<"X">>, <<"B", "a", "r">> >>) }
CheckFormats == { NoOption, One(CAMEL_OPTION), Many(<<PASCAL_OPTION, UPPER_OPTION>>) }

CheckNames ==
    { <<"f", "o", "o">>,
      <<"F", "o", "o">>,
      <<"_", "f", "o", "o">>,
      <<"_", "_", "f", "o", "o", "_", "_">>,
      <<"I", "f", "o", "o", "X">>,
      <<"f", "o", "o", "B", "a", "r">>,
      <<"_", "I", "F", "o", "o", "B", "a", "r", "_">>,
      <<"T", "F", "O", "O", "X">>,
      <<"_">> }

CheckInit ==
    /\ pc = "check"
    /\ ruleArguments = <<>>
    /\ options = <<>>
    /\ depth = 0
    /\ cache = <<>>
    /\ failures = <<>>
    /\ stack = <<>>
    /\ visited = 0
    /\ checked = <<>>
    /\ \E regex \in CheckRegexes, leading \in CheckUnderscores, trailing \in CheckUnderscores,
          prefix \in CheckPrefixes, suffix \in CheckSuffixes, format \in CheckFormats :
          call = [ op |-> "check",
                   checker |->
                       NameChecker(TypeSelector.variable,
                           [ format |-> format,
                             leadingUnderscore |-> leading,
                             trailingUnderscore |-> trailing,
                             prefix |-> prefix,
                             suffix |-> suffix,
                             regex |-> regex ]) ]

\* The failures of one check, each with the number of its declaration
RECURSIVE AtNode(_, _)
AtNode(fs, id) ==
    IF fs = <<>> THEN <<>>
    ELSE <<[id |-> id, field |-> Head(fs).field, message |-> Head(fs).message,
            detail |-> Head(fs).detail]>> \o AtNode(Tail(fs), id)

CallCheck(name) ==
    /\ pc = "check"
    /\ Len(checked) < MaxIdentifiers
    /\ LET st == check(call.checker, name)
           id == Len(checked) + 1
       IN  /\ failures' = failures \o AtNode(st.failures, id)
           /\ checked' = Append(checked,
                  [ name |-> name,
                    stripped |-> AfterUnderscores(call.checker, name).identifier,
                    identifier |-> st.identifier ])
    /\ UNCHANGED <<pc, ruleArguments, options, depth, cache, stack, visited, call>>

CheckNext == \E name \in CheckNames : CallCheck(name)

SpecCheck == CheckInit /\ [][CheckNext]_vars


\* The reference reading of a contract (the specification's Format Validator):
\* what each step strips, and the fields a name fails.
FirstHit(s, items, Test(_, _)) ==
    LET hits == {i \in 1..Len(items) : Test(s, items[i])}
    IN  IF hits = {} THEN 0 ELSE CHOOSE i \in hits : \A j \in hits : i <= j

RefAfterLeading(c, n) ==
    IF c.leadingUnderscore # Undefined /\ Len(n) > 0 /\ n[1] = "_" THEN Tail(n) ELSE n

RefAfterTrailing(c, n) ==
    LET m == RefAfterLeading(c, n)
    IN  IF c.trailingUnderscore # Undefined /\ Len(m) > 0 /\ m[Len(m)] = "_"
        THEN SubSeq(m, 1, Len(m) - 1) ELSE m

RefAfterPrefix(c, n) ==
    LET m == RefAfterTrailing(c, n)
        hit == FirstHit(m, c.prefix.items, StartsWith)
    IN  IF hit = 0 THEN m ELSE SubSeq(m, Len(c.prefix.items[hit]) + 1, Len(m))

\* The head that is left when the matched suffix is removed from the tail
RefAfterSuffix(c, n) ==
    LET m == RefAfterPrefix(c, n)
        hit == FirstHit(m, c.suffix.items, EndsWith)
    IN  IF hit = 0 THEN m ELSE SubSeq(m, 1, Len(m) - Len(c.suffix.items[hit]))

RefUnderscoreFails(policy, present) ==
    (policy = "forbid" /\ present) \/ (policy = "require" /\ ~present)

RefFailingFields(c, n) ==
    LET l == n
        t == RefAfterLeading(c, n)
        p == RefAfterTrailing(c, n)
        x == RefAfterPrefix(c, n)
        core == RefAfterSuffix(c, n)
    IN  {f \in FormatKeys :
            CASE f = "regex" ->
                    c.regex # NoOption /\ ~StartsWith(n, Tail(c.regex.items[1]))
              [] f = "leadingUnderscore" ->
                    RefUnderscoreFails(c.leadingUnderscore, Len(l) > 0 /\ l[1] = "_")
              [] f = "trailingUnderscore" ->
                    RefUnderscoreFails(c.trailingUnderscore, Len(t) > 0 /\ t[Len(t)] = "_")
              [] f = "prefix" ->
                    c.prefix # NoOption /\ FirstHit(p, c.prefix.items, StartsWith) = 0
              [] f = "suffix" ->
                    c.suffix # NoOption /\ FirstHit(x, c.suffix.items, EndsWith) = 0
              [] f = "format" ->
                    c.format # NoOption
                    /\ \A i \in 1..Len(c.format.items) : ~RefFormat(core, c.format.items[i])}

\* The order of the checks
FieldRank ==
    [ regex |-> 1, leadingUnderscore |-> 2, trailingUnderscore |-> 3,
      prefix |-> 4, suffix |-> 5, format |-> 6 ]

FieldsReported(id) == {failures[i].field : i \in {j \in 1..Len(failures) : failures[j].id = id}}

\* The failures are in the order of the declarations and, for one declaration, in
\* the order of the checks, with no field twice.
ReportedInOrder ==
    \A i \in 1..(Len(failures) - 1) :
        \/ failures[i].id < failures[i + 1].id
        \/ /\ failures[i].id = failures[i + 1].id
           /\ FieldRank[failures[i].field] < FieldRank[failures[i + 1].field]

\* Every field a name fails has its failure.
FailingFieldsReported ==
    \A id \in 1..Len(checked) :
        RefFailingFields(call.checker, checked[id].name) \subseteq FieldsReported(id)

(* C5: check reports one violation for every configured field the name      *)
(* fails (regex, leading underscore, trailing underscore, prefix, suffix,  *)
(* case format), in that order, never stopping at the first, and all        *)
(* violations of one declaration come before those of a later one.         *)
C5_AsStated ==
    pc = "check" /\ call.op = "check" => ReportedInOrder /\ FailingFieldsReported

(* C6: with a set of two or more suffixes, a matched suffix is removed from *)
(* the tail and the case check runs on the remaining head, as for a single *)
(* suffix; when none matches, one violation lists all suffixes and the     *)
(* name is passed on unchanged.                                            *)
C6_AsStated ==
    pc = "check" /\ call.op = "check" /\ IsArray(call.checker.suffix) =>
        \A id \in 1..Len(checked) :
            LET c == call.checker
                before == BeforeSuffix(c, checked[id].name).identifier
                hit == FirstHit(before, c.suffix.items, EndsWith)
                suffixFailures ==
                    {i \in 1..Len(failures) :
                        failures[i].id = id /\ failures[i].field = "suffix"}
            IN  IF hit # 0
                THEN /\ checked[id].identifier =
                            SubSeq(before, 1, Len(before) - Len(c.suffix.items[hit]))
                     /\ suffixFailures = {}
                     /\ ("format" \in FieldsReported(id)) <=>
                            (c.format # NoOption
                             /\ ~matchesAnyFormat(
                                    SubSeq(before, 1, Len(before) - Len(c.suffix.items[hit])),
                                    c.format.items))
                ELSE /\ checked[id].identifier = before
                     /\ Cardinality(suffixFailures) = 1
                     /\ \A i \in suffixFailures : failures[i].detail = c.suffix.items


(* C12: for each end, when its underscore policy is set and the name (for   *)
(* the trailing end: the name as the leading step left it) has '_' at that *)
(* end, exactly one underscore is removed from it, and otherwise nothing;  *)
(* the prefix, suffix and case checks get the name so stripped. '__foo__'  *)
(* with both policies allow and format camelCase is case-checked as        *)
(* '_foo_'.                                                                *)
C12_OneUnderscorePerEnd ==
    pc = "check" /\ call.op = "check" =>
        LET c == call.checker
        IN  \A id \in 1..Len(checked) :
                LET n == checked[id].name
                    led == IF c.leadingUnderscore # Undefined /\ Len(n) > 0 /\ n[1] = "_"
                           THEN SubSeq(n, 2, Len(n)) ELSE n
                    core == IF c.trailingUnderscore # Undefined /\ Len(led) > 0
                               /\ led[Len(led)] = "_"
                            THEN SubSeq(led, 1, Len(led) - 1) ELSE led
                IN  /\ checked[id].stripped = core
                    /\ Len(n) - Len(core) <= 2
                    /\ c.prefix # NoOption =>
                          (("prefix" \in FieldsReported(id))
                              <=> FirstHit(core, c.prefix.items, StartsWith) = 0)
                    /\ c.prefix = NoOption /\ c.suffix # NoOption =>
                          (("suffix" \in FieldsReported(id))
                              <=> FirstHit(core, c.suffix.items, EndsWith) = 0)
                    /\ c.prefix = NoOption /\ c.suffix = NoOption /\ c.format # NoOption =>
                          /\ checked[id].identifier = core
                          /\ ("format" \in FieldsReported(id))
                                <=> ~matchesAnyFormat(core, c.format.items)
                    /\ (/\ n = <<"_", "_", "f", "o", "o", "_", "_">>
                        /\ c.leadingUnderscore = "allow" /\ c.trailingUnderscore = "allow")
                          => core = <<"_", "f", "o", "o", "_">>

\* '__foo__' has been checked with both policies allow and format camelCase only:
\* '_foo_' went to the case check, which is the one failure reported.
C12_Witness ==
    /\ pc = "check" /\ call.op = "check"
    /\ call.checker.leadingUnderscore = "allow"
    /\ call.checker.trailingUnderscore = "allow"
    /\ call.checker.format = One(CAMEL_OPTION)
    /\ call.checker.prefix = NoOption /\ call.checker.suffix = NoOption
    /\ call.checker.regex = NoOption
    /\ Len(checked) = 1
    /\ checked[1].name = <<"_", "_", "f", "o", "o", "_", "_">>
    /\ checked[1].identifier = <<"_", "f", "o", "o", "_">>
    /\ FieldsReported(1) = {"format"}


---------------------------------------------------------------------------
(* Resolution: _createChecker.                                             *)

\* Object.assign(format, rule.getFormat()): the keys the rule has overwrite
ObjectAssign(format, source) ==
    [ format |-> IF source.format # NoOption THEN source.format ELSE format.format,
      leadingUnderscore |->
          IF source.leadingUnderscore # Undefined THEN source.leadingUnderscore
          ELSE format.leadingUnderscore,
      trailingUnderscore |->
          IF source.trailingUnderscore # Undefined THEN source.trailingUnderscore
          ELSE format.trailingUnderscore,
      prefix |-> IF source.prefix # NoOption THEN source.prefix ELSE format.prefix,
      suffix |-> IF source.suffix # NoOption THEN source.suffix ELSE format.suffix,
      regex |-> IF source.regex # NoOption THEN source.regex ELSE format.regex ]

\* The callback of options.reduce, with hasFilter as part of the accumulator
RECURSIVE Reduce(_, _, _, _, _)
Reduce(rules, acc, type, modifiers, name) ==
    IF rules = <<>> THEN acc
    ELSE LET rule == Head(rules)
             m == matches(rule, type, modifiers, name)
             next ==
                 IF ~m[1] THEN acc
                 ELSE [ format |-> ObjectAssign(acc.format, getFormat(rule)),
                        hasFilter |-> acc.hasFilter \/ m[2] ]
         IN  Reduce(Tail(rules), next, type, modifiers, name)

\* The test 'ohne Regeln kein Checker'
NoRules(config) ==
    /\ config.leadingUnderscore = Undefined
    /\ config.trailingUnderscore = Undefined
    /\ ~TruthyName(config.format)
    /\ ~Truthy(config.prefix)
    /\ ~Truthy(config.regex)
    /\ ~Truthy(config.suffix)

\* _createChecker: the merged config, the checker (or Null), hasFilter, and whether
\* the NameChecker constructor throws
createChecker(rules, type, modifiers, name) ==
    LET acc == Reduce(rules, [format |-> EmptyFormat, hasFilter |-> FALSE],
                      type, modifiers, name)
        config == acc.format
    IN  [ config |-> config,
          hasFilter |-> acc.hasFilter,
          throws |-> ~NoRules(config) /\ NameCheckerThrows(config),
          checker |->
              IF NoRules(config) \/ NameCheckerThrows(config) THEN Null
              ELSE NameChecker(type, config) ]

---------------------------------------------------------------------------
(* SpecMerge: Rule.apply on a list of rules, then _createChecker for one   *)
(* declaration.                                                            *)

MaxRules == 2

Fmt(format, leading, trailing, prefix, suffix, regex) ==
    [ format |-> format, leadingUnderscore |-> leading, trailingUnderscore |-> trailing,
      prefix |-> prefix, suffix |-> suffix, regex |-> regex ]

MergeRules ==
    { RawRule("default", NoOption, FALSE, NoOption,
              Fmt(One(CAMEL_OPTION), "allow", Undefined, NoOption, NoOption, NoOption)),
      RawRule("variable", NoOption, FALSE, NoOption,
              Fmt(One(UPPER_OPTION), Undefined, Undefined, NoOption, NoOption, NoOption)),
      RawRule("variable", NoOption, FALSE, NoOption,
              Fmt(One(PASCAL_OPTION), Undefined, Undefined, One(<<"I">>), NoOption, NoOption)),
      RawRule("variable", One("const"), FALSE, NoOption,
              Fmt(Many(<<UPPER_OPTION, CAMEL_OPTION>>), Undefined, "forbid", NoOption,
                  One(<<"X">>), NoOption)),
      RawRule("variable", One("readonly"), FALSE, NoOption,
              Fmt(NoOption, "require", Undefined, NoOption, One(<<"B", "a", "r">>), NoOption)),
      RawRule("variable", Many(<<"global", "export">>), FALSE, NoOption,
              Fmt(NoOption, "forbid", "allow", NoOption, NoOption, One(Anchored(<<"x">>)))),
      RawRule("variable", NoOption, TRUE, NoOption,
              Fmt(One(SNAKE_OPTION), Undefined, Undefined, One(<<"T">>), NoOption, NoOption)),
      RawRule("variable", NoOption, FALSE, One(Anchored(<<"I">>)),
              Fmt(One(SNAKE_OPTION), Undefined, "require", NoOption, NoOption, NoOption)),
      RawRule("function", NoOption, FALSE, NoOption,
              Fmt(One(PASCAL_OPTION), Undefined, Undefined, NoOption, NoOption,
                  One(Anchored(<<"I">>)))) }

MergeSelectors == {"variable", "function", "parameter"}

MergeDeclModifiers ==
    { Modifiers.global,
      BitOr(Modifiers.global, Modifiers.const),
      Modifiers.local,
      BitOr(BitOr(Modifiers.global, Modifiers.export), Modifiers.const) }

MergeNames == { <<"I", "x">>, <<"x">> }

RuleLists == UNION { [1..n -> MergeRules] : n \in 1..MaxRules }

MergeInit ==
    /\ pc = "apply"
    /\ ruleArguments \in RuleLists
    /\ options = <<>>
    /\ depth = 0
    /\ cache = <<>>
    /\ failures = <<>>
    /\ stack = <<>>
    /\ visited = 0
    /\ checked = <<>>
    /\ \E selector \in MergeSelectors, modifiers \in MergeDeclModifiers, name \in MergeNames :
          call = [ op |-> "createChecker", selector |-> selector, modifiers |-> modifiers,
                   name |-> name, result |-> Null ]

MergeApply ==
    /\ pc = "apply"
    /\ options' = RuleApply(ruleArguments)
    /\ pc' = "createChecker"
    /\ UNCHANGED <<ruleArguments, depth, cache, failures, stack, visited, checked, call>>

MergeCreateChecker ==
    /\ pc = "createChecker"
    /\ call' = [call EXCEPT !.result =
                   createChecker(options, TypeSelector[call.selector], call.modifiers, call.name)]
    /\ pc' = "done"
    /\ UNCHANGED walkerVars

MergeNext == MergeApply \/ MergeCreateChecker

SpecMerge == MergeInit /\ [][MergeNext]_vars

MergeDone == pc = "done" /\ call.op = "createChecker"

Absent(key, value) ==
    IF key \in {"leadingUnderscore", "trailingUnderscore"} THEN value = Undefined
    ELSE value = NoOption

\* The rules of the list that match the declaration and set the key
Setters(raws, key, selector, modifiers, name) ==
    {i \in 1..Len(raws) :
        /\ matches(NormalizedConfig(raws[i]), TypeSelector[selector], modifiers, name)[1]
        /\ ~Absent(key, raws[i][key])}

Score(raw) == NormalizedConfig(raw).specifity

\* Of the rules in set, the one of the highest score and, among those, declared last
Winner(raws, set) ==
    CHOOSE i \in set : \A j \in set :
        \/ Score(raws[j]) < Score(raws[i])
        \/ Score(raws[j]) = Score(raws[i]) /\ j <= i

Swap(raws, i, j) == [raws EXCEPT ![i] = raws[j], ![j] = raws[i]]

MergedConfig(raws, selector, modifiers, name) ==
    createChecker(RuleApply(raws), TypeSelector[selector], modifiers, name).config

\* Exchanging the rules at i and j leaves the order among rules of one score as it is
KeepsEqualScoreOrder(raws, i, j) ==
    \A k \in 1..Len(raws) :
        (i < k /\ k < j) \/ (j < k /\ k < i) =>
            Score(raws[k]) \notin {Score(raws[i]), Score(raws[j])}

(* C2: each field of the merged contract is the value set by the matching   *)
(* rule of the highest specificity that sets it (the later-declared one    *)
(* among equal scores); a field no matching rule sets stays absent; and    *)
(* exchanging two rules of different scores in the declaration order, the  *)
(* order among rules of equal scores staying as it is, does not change the *)
(* merged contract.                                                        *)
C2_MergeBySpecificity ==
    MergeDone =>
        /\ \A key \in FormatKeys :
              LET set == Setters(ruleArguments, key, call.selector, call.modifiers, call.name)
              IN  IF set = {} THEN Absent(key, call.result.config[key])
                  ELSE call.result.config[key] = ruleArguments[Winner(ruleArguments, set)][key]
        /\ \A i, j \in 1..Len(ruleArguments) :
              /\ Score(ruleArguments[i]) # Score(ruleArguments[j])
              /\ KeepsEqualScoreOrder(ruleArguments, i, j)
              => MergedConfig(Swap(ruleArguments, i, j), call.selector, call.modifiers,
                              call.name) = call.result.config

\* The more specific rule was declared first and a less specific rule that sets the
\* same field after it; the merged field is the more specific rule's.
C2_Witness ==
    /\ MergeDone
    /\ Len(ruleArguments) = 2
    /\ Setters(ruleArguments, "format", call.selector, call.modifiers, call.name) = {1, 2}
    /\ Score(ruleArguments[1]) > Score(ruleArguments[2])
    /\ ruleArguments[1].format # ruleArguments[2].format
    /\ call.result.config.format = ruleArguments[1].format


---------------------------------------------------------------------------
(* The declaration classifier: the nodes of the tree, _getModifiers and    *)
(* the visit* handlers. A handler is the sequence of _checkName calls it   *)
(* makes: the name, the kind selector and the modifier bitmask of each.    *)

\* A node of the tree as the handlers read it. keywords is node.modifiers (undefined
\* when empty); name is NoOption when the node has no name or its name is no
\* identifier; bindings are the identifiers of a variable declaration list or of a
\* destructuring parameter, each with whether its property name differs (a rename).
Node(kind, name, keywords, typeParameters, bindings, isConst, members) ==
    [ kind |-> kind, name |-> name, keywords |-> keywords,
      typeParameters |-> typeParameters, bindings |-> bindings,
      isConst |-> isConst, members |-> members ]

NameCheck(name, type, modifiers) == [name |-> name, type |-> type, modifiers |-> modifiers]

hasModifier(keywords, keyword) == keyword \in keywords

\* _getModifiers, with this._depth as scopeDepth
getModifiers(node, type, scopeDepth) ==
    LET visibility ==
            IF hasModifier(node.keywords, "private") THEN Modifiers.private
            ELSE IF hasModifier(node.keywords, "protected") THEN Modifiers.protected
            ELSE Modifiers.public
        memberPart ==
            IF BitOr(type, Types.member) # 0
            THEN BitOr(BitOr(visibility,
                     IF hasModifier(node.keywords, "readonly") THEN Modifiers.const ELSE 0),
                     IF hasModifier(node.keywords, "static") THEN Modifiers.static ELSE 0)
            ELSE 0
        keywordPart ==
            BitOr(BitOr(memberPart,
                IF hasModifier(node.keywords, "const") THEN Modifiers.const ELSE 0),
                BitOr(IF hasModifier(node.keywords, "export") THEN Modifiers.export ELSE 0,
                      IF hasModifier(node.keywords, "abstract") THEN Modifiers.abstract ELSE 0))
        fromKeywords == IF node.keywords # {} THEN keywordPart ELSE 0
    IN  IF type # TypeSelector.property /\ type # TypeSelector.method
        THEN BitOr(fromKeywords, IF scopeDepth # 0 THEN Modifiers.local ELSE Modifiers.global)
        ELSE fromKeywords

\* _checkDeclaration
checkDeclaration(node, type, scopeDepth) ==
    <<NameCheck(node.name.items[1], type, getModifiers(node, type, scopeDepth))>>

\* _checkTypeParameters
checkTypeParameters(node, modifiers, scopeDepth) ==
    [i \in 1..Len(node.typeParameters) |->
        NameCheck(node.typeParameters[i], TypeSelector.genericTypeParameter, modifiers)]

\* A declaration of the node when it has an identifier name
IfNamed(node, type, scopeDepth) ==
    IF node.name # NoOption THEN checkDeclaration(node, type, scopeDepth) ELSE <<>>

visitEnumDeclaration(node, scopeDepth) ==
    LET modifiers == getModifiers(node, TypeSelector.enum, scopeDepth)
        memberModifiers ==
            BitOr(modifiers,
                  BitOr(BitOr(Modifiers.static, Modifiers.public), Modifiers.readonly))
    IN  <<NameCheck(node.name.items[1], TypeSelector.enum, modifiers)>>
        \o [i \in 1..Len(node.members) |->
               NameCheck(node.members[i], TypeSelector.enumMember, memberModifiers)]

visitTypeAliasDeclaration(node, scopeDepth) ==
    checkDeclaration(node, TypeSelector.typeAlias, scopeDepth)
    \o checkTypeParameters(node, Modifiers.global, scopeDepth)

visitClassExpression(node, scopeDepth) ==
    IfNamed(node, TypeSelector.class, scopeDepth)
    \o checkTypeParameters(node, Modifiers.global, scopeDepth)

visitClassDeclaration(node, scopeDepth) ==
    IfNamed(node, TypeSelector.class, scopeDepth)
    \o checkTypeParameters(node, Modifiers.global, scopeDepth)

visitMethodDeclaration(node, scopeDepth) ==
    IfNamed(node, TypeSelector.method, scopeDepth)
    \o checkTypeParameters(node, Modifiers.local, scopeDepth)

visitInterfaceDeclaration(node, scopeDepth) ==
    checkDeclaration(node, TypeSelector.interface, scopeDepth)
    \o checkTypeParameters(node, Modifiers.global, scopeDepth)

\* utils.isParameterProperty: a parameter with an accessibility or readonly modifier
isParameterProperty(node) ==
    node.keywords \cap {"public", "protected", "private", "readonly"} # {}

RenameBit(binding) == IF binding.renamed THEN Modifiers.rename ELSE 0

\* A parameter named this has kind "ThisParameter" in the model.
visitParameterDeclaration(node, scopeDepth) ==
    IF node.name # NoOption
    THEN IF node.kind = "ThisParameter" THEN <<>>
         ELSE checkDeclaration(node,
                  IF isParameterProperty(node) THEN TypeSelector.parameterProperty
                  ELSE TypeSelector.parameter, scopeDepth)
    ELSE [i \in 1..Len(node.bindings) |->
             NameCheck(node.bindings[i].name, TypeSelector.parameter,
                       BitOr(Modifiers.local, RenameBit(node.bindings[i])))]

visitPropertyDeclaration(node, scopeDepth) == IfNamed(node, TypeSelector.property, scopeDepth)

visitSetAccessor(node, scopeDepth) == IfNamed(node, TypeSelector.property, scopeDepth)

visitGetAccessor(node, scopeDepth) == IfNamed(node, TypeSelector.property, scopeDepth)

\* _checkVariableDeclarationList
checkVariableDeclarationList(node, modifiers) ==
    LET withConst == IF node.isConst THEN BitOr(modifiers, Modifiers.const) ELSE modifiers
    IN  [i \in 1..Len(node.bindings) |->
            NameCheck(node.bindings[i].name, TypeSelector.variable,
                      BitOr(withConst, RenameBit(node.bindings[i])))]

\* The initializer of a for statement: a declaration list has no modifiers. A
\* statement whose initializer is no declaration list has no bindings.
Initializer(node) == [node EXCEPT !.keywords = {}]

visitForStatement(node, scopeDepth) ==
    checkVariableDeclarationList(node,
        getModifiers(Initializer(node), TypeSelector.variable, scopeDepth))

visitForOfStatement(node, scopeDepth) ==
    checkVariableDeclarationList(node,
        getModifiers(Initializer(node), TypeSelector.variable, scopeDepth))

visitForInStatement(node, scopeDepth) ==
    checkVariableDeclarationList(node,
        getModifiers(Initializer(node), TypeSelector.variable, scopeDepth))

visitVariableStatement(node, scopeDepth) ==
    IF ~hasModifier(node.keywords, "declare")
    THEN checkVariableDeclarationList(node,
             getModifiers(node, TypeSelector.variable, scopeDepth))
    ELSE <<>>

visitFunctionDeclaration(node, scopeDepth) ==
    IfNamed(node, TypeSelector.function, scopeDepth)
    \o checkTypeParameters(node, Modifiers.local, scopeDepth)

visitFuncitonExpression(node, scopeDepth) ==
    IfNamed(node, TypeSelector.function, scopeDepth)
    \o checkTypeParameters(node, Modifiers.local, scopeDepth)

visitArrowFunction(node, scopeDepth) == checkTypeParameters(node, Modifiers.local, scopeDepth)

\* visitNode: the _checkName calls made for the node
visitNode(node, scopeDepth) ==
    CASE node.kind = "VariableStatement" -> visitVariableStatement(node, scopeDepth)
      [] node.kind = "FunctionDeclaration" -> visitFunctionDeclaration(node, scopeDepth)
      [] node.kind = "FunctionExpression" -> visitFuncitonExpression(node, scopeDepth)
      [] node.kind = "ForStatement" -> visitForStatement(node, scopeDepth)
      [] node.kind = "ForInStatement" -> visitForInStatement(node, scopeDepth)
      [] node.kind = "ForOfStatement" -> visitForOfStatement(node, scopeDepth)
      [] node.kind \in {"Parameter", "ThisParameter"} -> visitParameterDeclaration(node, scopeDepth)
      [] node.kind = "ClassDeclaration" -> visitClassDeclaration(node, scopeDepth)
      [] node.kind = "ClassExpression" -> visitClassExpression(node, scopeDepth)
      [] node.kind = "InterfaceDeclaration" -> visitInterfaceDeclaration(node, scopeDepth)
      [] node.kind = "EnumDeclaration" -> visitEnumDeclaration(node, scopeDepth)
      [] node.kind = "TypeAliasDeclaration" -> visitTypeAliasDeclaration(node, scopeDepth)
      [] node.kind = "PropertyDeclaration" -> visitPropertyDeclaration(node, scopeDepth)
      [] node.kind = "MethodDeclaration" -> visitMethodDeclaration(node, scopeDepth)
      [] node.kind = "GetAccessor" -> visitGetAccessor(node, scopeDepth)
      [] node.kind = "SetAccessor" -> visitSetAccessor(node, scopeDepth)
      [] node.kind = "ArrowFunction" -> visitArrowFunction(node, scopeDepth)
      [] OTHER -> <<>>


---------------------------------------------------------------------------
(* SpecClassify: visitNode on one node at one scope depth.                 *)

MaxDepth == 2

Named == One(<<"x">>)
NoBindings == <<>>
Binding(name, renamed) == [name |-> name, renamed |-> renamed]

MemberKinds == {"PropertyDeclaration", "MethodDeclaration", "GetAccessor", "SetAccessor"}

MemberKeywords == SUBSET {"private", "protected", "public", "static", "readonly", "abstract"}

ParameterKeywords == SUBSET {"private", "protected", "public", "readonly"}

BindingLists ==
    { <<Binding(<<"x">>, FALSE)>>,
      <<Binding(<<"x">>, TRUE), Binding(<<"f", "o", "o">>, FALSE)>> }

TypeParameterLists == { <<>>, << <<"T">> >> }

\* The nodes whose parent opens a scope: members of a class, parameters of a
\* function. They are never at depth 0.
InnerNodes ==
    { Node(kind, name, keywords, typeParameters, NoBindings, FALSE, <<>>) :
        kind \in MemberKinds, name \in {Named, NoOption}, keywords \in MemberKeywords,
        typeParameters \in {<<>>} }
    \cup { Node("MethodDeclaration", Named, {}, << <<"T">> >>, NoBindings, FALSE, <<>>) }
    \cup { Node("Parameter", Named, keywords, <<>>, NoBindings, FALSE, <<>>) :
             keywords \in ParameterKeywords }
    \cup { Node("Parameter", NoOption, {}, <<>>, bindings, FALSE, <<>>) :
             bindings \in BindingLists }
    \cup { Node("ThisParameter", Named, {}, <<>>, NoBindings, FALSE, <<>>) }

\* The nodes that stand where a statement or an expression may stand, at any depth
OuterNodes ==
    { Node("VariableStatement", NoOption, keywords, <<>>, bindings, isConst, <<>>) :
        keywords \in SUBSET {"export", "declare"}, bindings \in BindingLists,
        isConst \in BOOLEAN }
    \cup { Node(kind, NoOption, {}, <<>>, bindings, isConst, <<>>) :
             kind \in {"ForStatement", "ForInStatement", "ForOfStatement"},
             bindings \in BindingLists \cup {NoBindings}, isConst \in BOOLEAN }
    \cup { Node("FunctionDeclaration", Named, keywords, typeParameters, NoBindings, FALSE, <<>>) :
             keywords \in SUBSET {"export", "declare"}, typeParameters \in TypeParameterLists }
    \cup { Node(kind, name, {}, typeParameters, NoBindings, FALSE, <<>>) :
             kind \in {"FunctionExpression", "ClassExpression"}, name \in {Named, NoOption},
             typeParameters \in TypeParameterLists }
    \cup { Node("ArrowFunction", NoOption, {}, typeParameters, NoBindings, FALSE, <<>>) :
             typeParameters \in TypeParameterLists }
    \cup { Node("ClassDeclaration", Named, keywords, typeParameters, NoBindings, FALSE, <<>>) :
             keywords \in SUBSET {"export", "abstract"}, typeParameters \in TypeParameterLists }
    \cup { Node(kind, Named, keywords, typeParameters, NoBindings, FALSE, <<>>) :
             kind \in {"InterfaceDeclaration", "TypeAliasDeclaration"},
             keywords \in SUBSET {"export"}, typeParameters \in TypeParameterLists }
    \cup { Node("EnumDeclaration", Named, keywords, <<>>, NoBindings, FALSE, members) :
             keywords \in SUBSET {"export", "const"},
             members \in { <<>>, << <<"A">>, <<"B">> >> } }
    \cup { Node("Block", NoOption, {}, <<>>, NoBindings, FALSE, <<>>) }

\* The _checkName calls of one visit, each with the node and the scope depth
Classified(node, scopeDepth) ==
    LET calls == visitNode(node, scopeDepth)
    IN  [i \in 1..Len(calls) |->
            [ name |-> calls[i].name, type |-> calls[i].type,
              modifiers |-> calls[i].modifiers, depth |-> scopeDepth,
              kind |-> node.kind, keywords |-> node.keywords ]]

ClassifyInit ==
    /\ pc = "visitNode"
    /\ ruleArguments = <<>>
    /\ options = <<>>
    /\ cache = <<>>
    /\ failures = <<>>
    /\ stack = <<>>
    /\ visited = 0
    /\ checked = <<>>
    /\ \/ \E node \in OuterNodes :
             /\ call = [op |-> "visitNode", node |-> node]
             /\ depth \in 0..MaxDepth
       \/ \E node \in InnerNodes :
             /\ call = [op |-> "visitNode", node |-> node]
             /\ depth \in 1..MaxDepth

CallVisitNode ==
    /\ pc = "visitNode"
    /\ checked' = Classified(call.node, depth)
    /\ pc' = "done"
    /\ UNCHANGED <<ruleArguments, options, depth, cache, failures, stack, visited, call>>

ClassifyNext == CallVisitNode

SpecClassify == ClassifyInit /\ [][ClassifyNext]_vars

ClassifyDone == pc = "done" /\ call.op = "visitNode"

VisibilityBits(mask) == {m \in {"public", "protected", "private"} : HasModifier(mask, m)}

ScopeBits(mask) == {m \in {"global", "local"} : HasModifier(mask, m)}

MemberSelectors ==
    {TypeSelector.property, TypeSelector.method, TypeSelector.parameterProperty}

(* C8: every member-like declaration (property, accessor, method, parameter *)
(* property) carries exactly one of public, protected, private: private if *)
(* it has the private keyword, else protected if it has the protected      *)
(* keyword, else public, whatever its keywords, none at all included.      *)
C8_AsStated ==
    ClassifyDone =>
        \A i \in 1..Len(checked) :
            checked[i].type \in MemberSelectors =>
                VisibilityBits(checked[i].modifiers) =
                    IF "private" \in checked[i].keywords THEN {"private"}
                    ELSE IF "protected" \in checked[i].keywords THEN {"protected"}
                    ELSE {"public"}

\* The scope depth at the point of a declaration: the depth counter when its node
\* is visited. A type parameter lies inside the declaration that is visited and
\* that opens a scope, so the counter plus one is taken for its depth as well.
DeclarationDepths(entry) ==
    IF entry.type = TypeSelector.genericTypeParameter
    THEN {entry.depth, entry.depth + 1}
    ELSE {entry.depth}

(* C9: every checked name whose kind is not property or method carries      *)
(* exactly one of global, local: global iff the scope depth is zero; names *)
(* of kind property or method carry neither.                               *)
C9_AsStated ==
    ClassifyDone =>
        \A i \in 1..Len(checked) :
            IF checked[i].type \in {TypeSelector.property, TypeSelector.method}
            THEN ScopeBits(checked[i].modifiers) = {}
            ELSE \E d \in DeclarationDepths(checked[i]) :
                     ScopeBits(checked[i].modifiers) = IF d = 0 THEN {"global"} ELSE {"local"}


(* C14: a declaration whose kind selector has no member bit (variable,     *)
(* function, plain parameter, class, interface, type alias, enum, generic  *)
(* type parameter) never carries one of the bits public, protected,        *)
(* private, whatever modifier keywords it has.                             *)
C14_AsStated ==
    ClassifyDone =>
        \A i \in 1..Len(checked) :
            BitAnd(checked[i].type, Types.member) = 0
                => VisibilityBits(checked[i].modifiers) = {}

---------------------------------------------------------------------------
(* Spec: one session. Rule.apply normalises and sorts the rules, then the  *)
(* walker walks a tree: cb visits a node, and for a scope boundary raises  *)
(* the depth around the visits of its children. The tree is any tree the   *)
(* grammar below allows, built as the walk goes.                           *)

MaxNodes == 3
MaxNest == 3

\* utils.isScopeBoundary, by the kind of the node
isScopeBoundary(kind) ==
    kind \in { "FunctionDeclaration", "FunctionExpression", "ArrowFunction",
               "MethodDeclaration", "GetAccessor", "SetAccessor",
               "ClassDeclaration", "ClassExpression", "InterfaceDeclaration",
               "EnumDeclaration", "TypeAliasDeclaration",
               "Block", "ForStatement", "ForInStatement", "ForOfStatement" }

WalkNames == { <<"f", "o", "o">>, <<"I", "F", "o", "o">> }

Statements ==
    { Node("VariableStatement", NoOption, {}, <<>>, <<Binding(name, FALSE)>>, FALSE, <<>>) :
        name \in WalkNames }
    \cup { Node("FunctionDeclaration", One(<<"f", "o", "o">>), {}, <<>>, NoBindings, FALSE, <<>>),
           Node("ClassDeclaration", One(<<"I", "F", "o", "o">>), {}, << <<"T">> >>,
                NoBindings, FALSE, <<>>) }

\* The nodes that may be children of a node of the kind ("SourceFile": the root)
Children(kind) ==
    CASE kind \in {"SourceFile", "Block"} -> Statements
      [] kind \in {"FunctionDeclaration", "MethodDeclaration"} ->
            { Node("Parameter", One(name), {}, <<>>, NoBindings, FALSE, <<>>) :
                name \in WalkNames }
            \cup { Node("Block", NoOption, {}, <<>>, NoBindings, FALSE, <<>>) }
      [] kind = "ClassDeclaration" ->
            { Node("PropertyDeclaration", One(<<"f", "o", "o">>), keywords, <<>>,
                   NoBindings, FALSE, <<>>) : keywords \in {{}, {"private"}} }
            \cup { Node("MethodDeclaration", One(<<"f", "o", "o">>), {}, <<>>,
                        NoBindings, FALSE, <<>>) }
      [] OTHER -> {}

VariableRule(modifiers, filter, fmt) == RawRule("variable", modifiers, FALSE, filter, fmt)

JustFormat(format) == Fmt(One(format), Undefined, Undefined, NoOption, NoOption, NoOption)

\* The rule lists of the sessions: well-formed ones, and one for each way a rule
\* can be malformed
WalkConfigs ==
    { << VariableRule(NoOption, NoOption, JustFormat(CAMEL_OPTION)),
         VariableRule(NoOption, One(Anchored(<<"I">>)), JustFormat(PASCAL_OPTION)) >>,
      << RawRule("default", NoOption, FALSE, NoOption,
                 Fmt(One(SNAKE_OPTION), "forbid", Undefined, One(<<"T">>), NoOption,
                     One(Anchored(<<"x">>)))) >>,
      << RawRule("klass", NoOption, FALSE, NoOption, JustFormat(UPPER_OPTION)) >>,
      << VariableRule(Many(<<"konst">>), NoOption, JustFormat(UPPER_OPTION)) >>,
      << VariableRule(NoOption, One(InvalidSource), JustFormat(CAMEL_OPTION)) >>,
      << RawRule("property", NoOption, FALSE, NoOption,
                 Fmt(One(CAMEL_OPTION), Undefined, Undefined, NoOption, NoOption,
                     One(InvalidSource))) >> }

Init ==
    /\ pc = "apply"
    /\ ruleArguments \in WalkConfigs
    /\ options = <<>>
    /\ depth = 0
    /\ cache = <<>>
    /\ failures = <<>>
    /\ stack = <<>>
    /\ visited = 0
    /\ checked = <<>>
    /\ call = NoCall

\* Rule.apply up to the call of walk
Apply ==
    /\ pc = "apply"
    /\ IF RuleApplyThrows(ruleArguments)
       THEN pc' = "failed" /\ options' = options
       ELSE pc' = "walk" /\ options' = RuleApply(ruleArguments)
    /\ UNCHANGED <<ruleArguments, depth, cache, failures, stack, visited, checked, call>>

CacheSet(map, key, value) ==
    [k \in DOMAIN map \cup {key} |-> IF k = key THEN value ELSE map[k]]

\* _getMatchingChecker: what _createChecker returns, or the cache's entry
getMatchingChecker(rules, map, type, modifiers, name) ==
    LET key == <<type, modifiers>>
        made == createChecker(rules, type, modifiers, name)
    IN  IF key \in DOMAIN map
        THEN [checker |-> map[key], cache |-> map, throws |-> FALSE]
        ELSE [ checker |-> made.checker,
               cache |-> IF ~made.hasFilter /\ ~made.throws
                         THEN CacheSet(map, key, made.checker) ELSE map,
               throws |-> made.throws ]

\* _checkName for one name of the node being visited; w is the walker's state
checkName(w, c, kind, keywords) ==
    LET got == getMatchingChecker(options, w.cache, c.type, c.modifiers, c.name)
        id == Len(w.checked) + 1
        added == IF got.checker # Null THEN AtNode(check(got.checker, c.name).failures, id)
                 ELSE <<>>
    IN  IF w.threw THEN w
        ELSE IF got.throws THEN [w EXCEPT !.threw = TRUE]
        ELSE [ cache |-> got.cache,
               failures |-> w.failures \o added,
               checked |->
                   Append(w.checked,
                       [ name |-> c.name, type |-> c.type, modifiers |-> c.modifiers,
                         depth |-> depth, kind |-> kind, keywords |-> keywords,
                         checker |-> got.checker ]),
               threw |-> FALSE ]

RECURSIVE checkNames(_, _, _, _)
checkNames(w, calls, kind, keywords) ==
    IF calls = <<>> THEN w
    ELSE checkNames(checkName(w, Head(calls), kind, keywords), Tail(calls), kind, keywords)

Parent == IF stack = <<>> THEN "SourceFile" ELSE stack[Len(stack)]

\* cb(node) up to its forEachChild: visitNode, then the depth goes up for a scope
\* boundary. An exception of the NameChecker constructor ends the walk.
Visit(node) ==
    /\ pc = "walk"
    /\ visited < MaxNodes
    /\ Len(stack) < MaxNest
    /\ node \in Children(Parent)
    /\ LET w == checkNames([cache |-> cache, failures |-> failures, checked |-> checked,
                            threw |-> FALSE],
                           visitNode(node, depth), node.kind, node.keywords)
       IN  /\ cache' = w.cache
           /\ failures' = w.failures
           /\ checked' = w.checked
           /\ visited' = visited + 1
           /\ IF w.threw
              THEN pc' = "threw" /\ UNCHANGED <<depth, stack>>
              ELSE /\ pc' = pc
                   /\ stack' = Append(stack, node.kind)
                   /\ depth' = IF isScopeBoundary(node.kind) THEN depth + 1 ELSE depth
    /\ UNCHANGED <<ruleArguments, options, call>>

\* Return that leaves the depth as it is
ReturnKeepDepth ==
    /\ pc = "walk"
    /\ stack # <<>>
    /\ stack' = SubSeq(stack, 1, Len(stack) - 1)
    /\ UNCHANGED <<pc, ruleArguments, options, depth, cache, failures, visited, checked, call>>

\* forEachChild(node, cb) returns in cb(node): the depth goes down again
Return ==
    /\ pc = "walk"
    /\ stack # <<>>
    /\ stack' = SubSeq(stack, 1, Len(stack) - 1)
    /\ depth' = IF isScopeBoundary(stack[Len(stack)]) THEN depth - 1 ELSE depth
    /\ UNCHANGED <<pc, ruleArguments, options, cache, failures, visited, checked, call>>

\* forEachChild(sourceFile, cb) returns in walk
Finish ==
    /\ pc = "walk"
    /\ stack = <<>>
    /\ pc' = "done"
    /\ UNCHANGED <<ruleArguments, options, depth, cache, failures, stack, visited, checked, call>>

Next ==
    \/ Apply
    \/ \E kind \in {"SourceFile", "Block", "FunctionDeclaration", "MethodDeclaration",
                    "ClassDeclaration"} : \E node \in Children(kind) : Visit(node)
    \/ Return
    \/ Finish

Spec == Init /\ [][Next]_vars

(* C1: whatever was looked up before in the walk, the checker applied to a  *)
(* declaration is the one a fresh, uncached resolution of its kind         *)
(* selector, modifiers and name over the sorted rules produces.            *)
C1_AsStated ==
    \A i \in 1..Len(checked) :
        checked[i].checker =
            createChecker(options, checked[i].type, checked[i].modifiers, checked[i].name).checker

WellFormed(raw) ==
    /\ raw.type \in DOMAIN Types
    /\ \A i \in 1..Len(raw.modifiers.items) : raw.modifiers.items[i] \in DOMAIN Modifiers
    /\ raw.filter # NoOption => ~RegExpThrows(raw.filter.items[1])
    /\ raw.regex # NoOption => ~RegExpThrows(raw.regex.items[1])

(* C10: a malformed rule (unknown kind, unknown modifier, invalid regex     *)
(* source in filter or regex) makes the construction fail at               *)
(* rule-normalisation time, before any declaration is checked: the session *)
(* never gets to walk with it.                                             *)
C10_AsStated ==
    (\E i \in 1..Len(ruleArguments) : ~WellFormed(ruleArguments[i]))
        => pc \in {"apply", "failed"}

\* The scope boundaries among the nodes whose children are being visited: the
\* proper ancestors, below the root, of the node visited next
BoundaryAncestors == Cardinality({i \in 1..Len(stack) : isScopeBoundary(stack[i])})

(* C13: during the walk the depth counter is the number of scope-boundary   *)
(* proper ancestors of the node that is visited, so a scope boundary is    *)
(* visited at its parent's depth and its children at one more; the counter *)
(* is never negative, and it is 0 when the walk has run to completion.     *)
C13_DepthCountsBoundaries ==
    /\ depth >= 0
    /\ pc = "walk" => depth = BoundaryAncestors
    /\ pc = "done" => depth = 0 /\ stack = <<>>

\* A variable statement in the body of a function has been visited: two scope
\* boundaries (the function, its block) are above its children.
C13_Witness ==
    /\ pc = "walk"
    /\ stack = <<"FunctionDeclaration", "Block", "VariableStatement">>
    /\ depth = 2
    /\ Len(checked) >= 2
    /\ checked[Len(checked)].depth = 2

---------------------------------------------------------------------------
(* SpecScore: two rules of one kind, declared in either order, are          *)
(* normalised and sorted by Rule.apply and merged by _createChecker for a  *)
(* declaration that carries the modifiers of both.                         *)

ScoreKinds == {"variable", "property", "class"}

\* The modifiers the rules require
ScoreRuleModifiers ==
    { NoOption, One("static"), One("global"), One("public"), One("export"),
      Many(<<"static", "global">>), Many(<<"static", "export">>),
      Many(<<"public", "private">>), Many(<<"public", "export">>),
      Many(<<"const", "readonly">>), Many(<<"static", "global", "export">>),
      Many(<<"static", "public", "export">>) }

\* Rule A sets the format and a prefix, rule B the format and a suffix
FormatA == Fmt(One(PASCAL_OPTION), Undefined, Undefined, One(<<"I">>), NoOption, NoOption)
FormatB == Fmt(One(CAMEL_OPTION), Undefined, Undefined, NoOption, One(<<"X">>), NoOption)

ScoreInit ==
    /\ pc = "apply"
    /\ options = <<>>
    /\ depth = 0
    /\ cache = <<>>
    /\ failures = <<>>
    /\ stack = <<>>
    /\ visited = 0
    /\ checked = <<>>
    /\ \E kind \in ScoreKinds, modifiersA \in ScoreRuleModifiers,
          modifiersB \in ScoreRuleModifiers, filterA \in MatchFilters,
          filterB \in MatchFilters, firstA \in BOOLEAN :
          LET A == RawRule(kind, modifiersA, FALSE, filterA, FormatA)
              B == RawRule(kind, modifiersB, FALSE, filterB, FormatB)
          IN  /\ ruleArguments = IF firstA THEN <<A, B>> ELSE <<B, A>>
              /\ call = [ op |-> "createChecker", selector |-> kind,
                          modifiers |-> BitOr(NormalizedConfig(A).modifiers,
                                              NormalizedConfig(B).modifiers),
                          name |-> <<"I", "x">>, result |-> Null ]

SpecScore == ScoreInit /\ [][MergeNext]_vars

\* The two rules of the session
RuleA == IF ruleArguments[1].format = FormatA.format THEN ruleArguments[1] ELSE ruleArguments[2]
RuleB == IF ruleArguments[1].format = FormatA.format THEN ruleArguments[2] ELSE ruleArguments[1]

ScoreDone == pc = "done" /\ Len(ruleArguments) = 2 /\ RuleA # RuleB

\* A requires every modifier B requires, and one more
StrictSuperset(A, B) ==
    LET a == NormalizedConfig(A).modifiers
        b == NormalizedConfig(B).modifiers
    IN  BitAnd(a, b) = b /\ a # b

SameModifiersPlusFilter(A, B) ==
    /\ NormalizedConfig(A).modifiers = NormalizedConfig(B).modifiers
    /\ A.filter # NoOption
    /\ B.filter = NoOption

\* A is merged after B and its fields override B's
MergedAfter(A, B) ==
    /\ Score(A) > Score(B)
    /\ options = <<NormalizedConfig(B), NormalizedConfig(A)>>
    /\ call.result.config.format = A.format
    /\ call.result.config.prefix = A.prefix

(* C11, as the specification states it: of two rules of one kind, the one   *)
(* that requires a strict superset of the other's modifiers (the filter    *)
(* being present in both or in neither), or the same modifiers plus a      *)
(* filter, has the strictly greater score, is merged after the other and   *)
(* overrides its fields, in either declaration order.                      *)
C11_AsStated ==
    ScoreDone =>
        ((\/ StrictSuperset(RuleA, RuleB) /\ (RuleA.filter = RuleB.filter)
          \/ SameModifiersPlusFilter(RuleA, RuleB))
         => MergedAfter(RuleA, RuleB))

\* The modifiers that share one bit of the score
ScoreGroup(modifier) ==
    CASE modifier \in {"const", "readonly"} -> "const"
      [] modifier \in {"static", "global", "local"} -> "static"
      [] modifier \in {"public", "protected", "private"} -> "public"
      [] OTHER -> modifier

ScoreGroups(raw) == {ScoreGroup(raw.modifiers.items[i]) : i \in 1..Len(raw.modifiers.items)}

(* C11, amended: the same, where the modifiers A adds include one that      *)
(* shares its score bit with no modifier of B (const and readonly share    *)
(* one bit, static, global and local one, public, protected and private    *)
(* one); when every added modifier shares its bit with a modifier of B,    *)
(* the scores are equal and the rule declared later is merged last.        *)
C11_ScoreOrder ==
    ScoreDone =>
        /\ ((\/ /\ StrictSuperset(RuleA, RuleB)
                /\ RuleA.filter = RuleB.filter
                /\ ~(ScoreGroups(RuleA) \subseteq ScoreGroups(RuleB))
             \/ SameModifiersPlusFilter(RuleA, RuleB))
            => MergedAfter(RuleA, RuleB))
        /\ ((/\ StrictSuperset(RuleA, RuleB)
             /\ RuleA.filter = RuleB.filter
             /\ ScoreGroups(RuleA) \subseteq ScoreGroups(RuleB))
            => (/\ Score(RuleA) = Score(RuleB)
                /\ options = <<NormalizedConfig(ruleArguments[1]),
                               NormalizedConfig(ruleArguments[2])>>
                /\ call.result.config.format = ruleArguments[2].format))

\* Rule A, declared first, requires static and export, rule B static only; A was
\* merged last and its format is the merged one.
C11_Witness ==
    /\ ScoreDone
    /\ ruleArguments[1] = RuleA
    /\ RuleA.modifiers = Many(<<"static", "export">>)
    /\ RuleB.modifiers = One("static")
    /\ RuleA.filter = NoOption /\ RuleB.filter = NoOption
    /\ call.result.config.format = FormatA.format

===========================================================================
